---- MODULE Spec2Model ----
(***************************************************************************)
(* Model of the tipping_program Anchor program                             *)
(* (src/anchor_project/programs/tipping_program/src/lib.rs).               *)
(*                                                                         *)
(* The state is the part of the ledger the program touches: the lamports   *)
(* of the system-owned wallets and, for every program-derived address, the *)
(* account stored there (lamports and the TipAccount record).  Every       *)
(* instruction is one atomic transaction: account validation generated by  *)
(* #[derive(Accounts)], then the handler, then commit; any error discards  *)
(* all effects of the invocation.                                          *)
(*                                                                         *)
(* The host pieces the program calls are modelled by what they do:         *)
(*  - Pubkey::create_program_address / find_program_address (seeds, bump), *)
(*  - the System program's Transfer and CreateAccount instructions,        *)
(*  - Anchor's constraint evaluation order (seeds before has_one).         *)
(***************************************************************************)
EXTENDS Integers, FiniteSets, Sequences, TLC

\* ---- bounds (scaled-down stand-ins) ----
NumKeys == 2          \* number of wallet public keys
U64Max == 6           \* stand-in for u64::MAX (2^64 - 1)
RentExemptMin == 2    \* stand-in for Rent::minimum_balance(8 + INIT_SPACE)

\* ---- program constants ----
MaxBump == 255        \* bump: u8
InitSpace == 41       \* TipAccount::INIT_SPACE = 32 + 8 + 1
Discriminator == 8    \* Anchor account discriminator

Keys == 1..NumKeys
NoKey == 0
Amounts == 0..U64Max

VARIABLES wallet, tip, last, prev, sent
vars == <<wallet, tip, last, prev, sent>>

\* ---------------------------------------------------------------------
\* Program derived addresses, seeds = [b"tip_account", key, bump]
\* ---------------------------------------------------------------------
NoAddress == <<0, 0>>

\* Stand-in for "sha256(seeds, bump, program id) is a point on the curve".
OnCurve(key, bump) == (key + bump) % 2 = 1

\* Pubkey::create_program_address: fails for on-curve hashes; otherwise the
\* address is an injective function of (seeds, bump).
CreateProgramAddress(key, bump) ==
    IF bump \notin 0..MaxBump \/ key \notin Keys \/ OnCurve(key, bump)
    THEN NoAddress
    ELSE <<key, bump>>

\* Pubkey::find_program_address: tries the bumps from 255 downwards and
\* returns the first one that gives a valid address.
RECURSIVE TryFindBump(_, _)
TryFindBump(key, bump) ==
    IF bump = 0 \/ ~OnCurve(key, bump) THEN bump
    ELSE TryFindBump(key, bump - 1)

FindProgramAddress(key) ==
    LET b == TryFindBump(key, MaxBump)
    IN [address |-> CreateProgramAddress(key, b), bump |-> b]

PdaAddrs == { FindProgramAddress(k).address : k \in Keys }

\* ---------------------------------------------------------------------
\* Accounts
\* ---------------------------------------------------------------------
\* #[account] struct TipAccount plus the lamports and lifecycle of the
\* account that holds it.
Uninitialized ==
    [state |-> "uninitialized", recipient |-> NoKey, total_tips |-> 0,
     bump |-> 0, lamports |-> 0]

TipAccount(recipient, total_tips, bump, lamports) ==
    [state |-> "active", recipient |-> recipient, total_tips |-> total_tips,
     bump |-> bump, lamports |-> lamports]

\* Size of the data of the account at a PDA.
DataLen(acct) == IF acct.state = "active" THEN Discriminator + InitSpace ELSE 0

\* References to accounts passed to the System program.
WalletRef(k) == [kind |-> "wallet", key |-> k, addr |-> NoAddress]
PdaRef(a) == [kind |-> "pda", key |-> NoKey, addr |-> a]

Lamports(w, t, ref) ==
    IF ref.kind = "wallet" THEN w[ref.key] ELSE t[ref.addr].lamports

RefDataLen(t, ref) ==
    IF ref.kind = "wallet" THEN 0 ELSE DataLen(t[ref.addr])

SetLamports(w, t, ref, n) ==
    IF ref.kind = "wallet"
    THEN [wallet |-> [w EXCEPT ![ref.key] = n], tip |-> t]
    ELSE [wallet |-> w, tip |-> [t EXCEPT ![ref.addr].lamports = n]]

Outcome(result, w, t) == [result |-> result, wallet |-> w, tip |-> t]

\* ---------------------------------------------------------------------
\* System program
\* ---------------------------------------------------------------------
\* Variant of the transfer without the "`from` must not carry data" check.
SystemTransferFromAnyAccount(w, t, from, to, amount) ==
    IF amount > Lamports(w, t, from)
    THEN Outcome("ResultWithNegativeLamports", w, t)
    ELSE IF from = to
    THEN Outcome("Ok", w, t)
    ELSE IF Lamports(w, t, to) + amount > U64Max
    THEN Outcome("ArithmeticOverflow", w, t)
    ELSE LET s1 == SetLamports(w, t, from, Lamports(w, t, from) - amount)
             s2 == SetLamports(s1.wallet, s1.tip, to,
                               Lamports(s1.wallet, s1.tip, to) + amount)
         IN Outcome("Ok", s2.wallet, s2.tip)

\* Variant of the transfer without the insufficient-lamports check.
SystemTransferNoFundsCheck(w, t, from, to, amount) ==
    IF RefDataLen(t, from) > 0
    THEN Outcome("InvalidArgument", w, t)
    ELSE IF from = to
    THEN Outcome("Ok", w, t)
    ELSE IF Lamports(w, t, to) + amount > U64Max
    THEN Outcome("ArithmeticOverflow", w, t)
    ELSE LET s1 == SetLamports(w, t, from, Lamports(w, t, from) - amount)
             s2 == SetLamports(s1.wallet, s1.tip, to,
                               Lamports(s1.wallet, s1.tip, to) + amount)
         IN Outcome("Ok", s2.wallet, s2.tip)

\* anchor_lang::system_program::transfer -> SystemInstruction::Transfer.
\* The System program only debits accounts that carry no data.
SystemTransfer(w, t, from, to, amount) ==
    IF RefDataLen(t, from) > 0
    THEN Outcome("InvalidArgument", w, t)
    ELSE SystemTransferFromAnyAccount(w, t, from, to, amount)

\* Variant of account creation that does not debit the payer.
SystemCreateAccountNoDebit(w, t, payer, addr) ==
    IF t[addr].state # "uninitialized" \/ t[addr].lamports > 0
    THEN Outcome("AccountAlreadyInUse", w, t)
    ELSE IF w[payer] < RentExemptMin
    THEN Outcome("ResultWithNegativeLamports", w, t)
    ELSE Outcome("Ok", w, [t EXCEPT ![addr].lamports = RentExemptMin])

\* SystemInstruction::CreateAccount issued by the `init` constraint: the new
\* account must be unused; the payer funds the rent-exempt minimum.
SystemCreateAccount(w, t, payer, addr) ==
    IF t[addr].state # "uninitialized" \/ t[addr].lamports > 0
    THEN Outcome("AccountAlreadyInUse", w, t)
    ELSE IF w[payer] < RentExemptMin
    THEN Outcome("ResultWithNegativeLamports", w, t)
    ELSE Outcome("Ok",
                 [w EXCEPT ![payer] = @ - RentExemptMin],
                 [t EXCEPT ![addr].lamports = RentExemptMin])

\* Variant that stores the amount instead of the sum.
CheckedAddOverwrite(a, b) == [ok |-> TRUE, val |-> b]

\* u64::checked_add
CheckedAdd(a, b) ==
    IF a + b > U64Max THEN [ok |-> FALSE, val |-> 0]
    ELSE [ok |-> TRUE, val |-> a + b]

\* ---------------------------------------------------------------------
\* initialize_tip_account
\* ---------------------------------------------------------------------
\* Variant with init_if_needed semantics: an existing account is accepted.
InitIfNeededConstraint(w, t, payer, recipient, addr) ==
    IF addr # FindProgramAddress(recipient).address
    THEN Outcome("ConstraintSeeds", w, t)
    ELSE IF t[addr].state = "active"
    THEN Outcome("Ok", w, t)
    ELSE LET c == SystemCreateAccount(w, t, payer, addr)
         IN IF c.result # "Ok" THEN c
            ELSE Outcome("Ok", c.wallet, [c.tip EXCEPT ![addr].state = "active"])

\* #[account(init, payer = payer, space = 8 + INIT_SPACE, seeds = [..], bump)]
\* The address passed as tip_account must be the canonical PDA of the
\* recipient; an address holding no lamports is created with CreateAccount,
\* otherwise it is topped up and allocated, which the System program refuses
\* for an account that already carries data.
InitConstraint(w, t, payer, recipient, addr) ==
    IF addr # FindProgramAddress(recipient).address
    THEN Outcome("ConstraintSeeds", w, t)
    ELSE IF t[addr].lamports = 0
    THEN LET c == SystemCreateAccount(w, t, payer, addr)
         IN IF c.result # "Ok" THEN c
            ELSE Outcome("Ok", c.wallet, [c.tip EXCEPT ![addr].state = "active"])
    ELSE LET required == IF RentExemptMin > t[addr].lamports
                         THEN RentExemptMin - t[addr].lamports ELSE 0
             f == IF required > 0
                  THEN SystemTransfer(w, t, WalletRef(payer), PdaRef(addr), required)
                  ELSE Outcome("Ok", w, t)
         IN IF f.result # "Ok" THEN f
            ELSE IF DataLen(f.tip[addr]) > 0
            THEN Outcome("AccountAlreadyInUse", w, t)
            ELSE Outcome("Ok", f.wallet, [f.tip EXCEPT ![addr].state = "active"])

\* struct InitializeTipAccount: account validation for the instruction.
InitializeTipAccountAccounts(w, t, payer, recipient, addr) ==
    InitConstraint(w, t, payer, recipient, addr)

\* Variant that records the payer as the recipient.
InitializeTipAccountHandlerPayerAsRecipient(w, t, payer, recipient, addr) ==
    Outcome("Ok", w,
            [t EXCEPT ![addr].recipient = payer,
                      ![addr].total_tips = 0,
                      ![addr].bump = FindProgramAddress(recipient).bump])

\* Variant that does not record the bump.
InitializeTipAccountHandlerNoBump(w, t, payer, recipient, addr) ==
    Outcome("Ok", w,
            [t EXCEPT ![addr].recipient = recipient,
                      ![addr].total_tips = 0])

\* fn initialize_tip_account
InitializeTipAccountHandler(w, t, payer, recipient, addr) ==
    Outcome("Ok", w,
            [t EXCEPT ![addr].recipient = recipient,
                      ![addr].total_tips = 0,
                      ![addr].bump = FindProgramAddress(recipient).bump])

\* ---------------------------------------------------------------------
\* send_tip
\* ---------------------------------------------------------------------
\* struct SendTip: Account<TipAccount> must be initialized; its address is
\* re-derived from its own stored recipient and bump.
SendTipAccounts(t, addr) ==
    IF t[addr].state # "active" THEN "AccountNotInitialized"
    ELSE IF CreateProgramAddress(t[addr].recipient, t[addr].bump) # addr
    THEN "ConstraintSeeds"
    ELSE "Ok"

\* Variant that leaves the counter alone.
SendTipHandlerNoCount(w, t, tipper, addr, amount) ==
    IF ~(amount > 0) THEN Outcome("InvalidAmount", w, t)
    ELSE SystemTransfer(w, t, WalletRef(tipper), PdaRef(addr), amount)

\* Variant that updates the counter before transferring.
SendTipHandlerCountFirst(w, t, tipper, addr, amount) ==
    IF ~(amount > 0) THEN Outcome("InvalidAmount", w, t)
    ELSE LET sum == CheckedAdd(t[addr].total_tips, amount)
         IN IF ~sum.ok THEN Outcome("Overflow", w, t)
            ELSE LET x == SystemTransfer(w, t, WalletRef(tipper), PdaRef(addr), amount)
                 IN IF x.result # "Ok" THEN x
                    ELSE Outcome("Ok", x.wallet,
                                 [x.tip EXCEPT ![addr].total_tips = sum.val])

\* Variant without the amount > 0 check.
SendTipHandlerNoAmountCheck(w, t, tipper, addr, amount) ==
    LET x == SystemTransfer(w, t, WalletRef(tipper), PdaRef(addr), amount)
    IN IF x.result # "Ok" THEN x
       ELSE LET sum == CheckedAdd(x.tip[addr].total_tips, amount)
            IN IF ~sum.ok THEN Outcome("Overflow", x.wallet, x.tip)
               ELSE Outcome("Ok", x.wallet,
                            [x.tip EXCEPT ![addr].total_tips = sum.val])

\* Variant that counts the tips instead of summing their amounts.
SendTipHandlerCountOne(w, t, tipper, addr, amount) ==
    IF ~(amount > 0) THEN Outcome("InvalidAmount", w, t)
    ELSE LET x == SystemTransfer(w, t, WalletRef(tipper), PdaRef(addr), amount)
         IN IF x.result # "Ok" THEN x
            ELSE LET sum == CheckedAdd(x.tip[addr].total_tips, 1)
                 IN IF ~sum.ok THEN Outcome("Overflow", x.wallet, x.tip)
                    ELSE Outcome("Ok", x.wallet,
                                 [x.tip EXCEPT ![addr].total_tips = sum.val])

\* Variant that adds the amount to the counter of every TipAccount.
SendTipHandlerCountAll(w, t, tipper, addr, amount) ==
    IF ~(amount > 0) THEN Outcome("InvalidAmount", w, t)
    ELSE LET x == SystemTransfer(w, t, WalletRef(tipper), PdaRef(addr), amount)
         IN IF x.result # "Ok" THEN x
            ELSE LET sum == CheckedAdd(x.tip[addr].total_tips, amount)
                 IN IF ~sum.ok THEN Outcome("Overflow", x.wallet, x.tip)
                    ELSE Outcome("Ok", x.wallet,
                                 [a \in DOMAIN x.tip |->
                                    IF x.tip[a].state = "active"
                                    THEN [x.tip[a] EXCEPT
                                            !.total_tips = @ + amount]
                                    ELSE x.tip[a]])

\* fn send_tip
SendTipHandler(w, t, tipper, addr, amount) ==
    IF ~(amount > 0) THEN Outcome("InvalidAmount", w, t)
    ELSE LET x == SystemTransfer(w, t, WalletRef(tipper), PdaRef(addr), amount)
         IN IF x.result # "Ok" THEN x
            ELSE LET sum == CheckedAdd(x.tip[addr].total_tips, amount)
                 IN IF ~sum.ok THEN Outcome("Overflow", x.wallet, x.tip)
                    ELSE Outcome("Ok", x.wallet,
                                 [x.tip EXCEPT ![addr].total_tips = sum.val])

\* ---------------------------------------------------------------------
\* withdraw_tips
\* ---------------------------------------------------------------------
\* struct WithdrawTips: Account<TipAccount> must be initialized; Anchor
\* evaluates the seeds constraint (derived from the signer's key and the
\* stored bump) before has_one = recipient.
WithdrawTipsAccounts(t, recipient, addr) ==
    IF t[addr].state # "active" THEN "AccountNotInitialized"
    ELSE IF CreateProgramAddress(recipient, t[addr].bump) # addr
    THEN "ConstraintSeeds"
    ELSE IF t[addr].recipient # recipient
    THEN "UnauthorizedWithdrawal"
    ELSE "Ok"

\* The CPI is signed with seeds [b"tip_account", recipient_key, bump]; the
\* `from` account is a signer only if they derive its address.
TransferWithSigner(w, t, seedKey, seedBump, from, to, amount) ==
    IF CreateProgramAddress(seedKey, seedBump) # from.addr
    THEN Outcome("MissingRequiredSignature", w, t)
    ELSE SystemTransfer(w, t, from, to, amount)

\* Variant that compares the amount with total_tips instead of the balance.
WithdrawTipsHandlerCounterCheck(w, t, recipient, addr, amount) ==
    IF ~(amount > 0) THEN Outcome("InvalidAmount", w, t)
    ELSE IF ~(t[addr].total_tips >= amount)
    THEN Outcome("InsufficientFunds", w, t)
    ELSE TransferWithSigner(w, t, t[addr].recipient, t[addr].bump,
                            PdaRef(addr), WalletRef(recipient), amount)

\* Variant that debits the lamports of the tip account directly.
WithdrawTipsHandlerDirectDebit(w, t, recipient, addr, amount) ==
    IF ~(amount > 0) THEN Outcome("InvalidAmount", w, t)
    ELSE IF ~(t[addr].lamports >= amount)
    THEN Outcome("InsufficientFunds", w, t)
    ELSE SystemTransferFromAnyAccount(w, t, PdaRef(addr), WalletRef(recipient),
                                      amount)

\* Variant without the amount > 0 check.
WithdrawTipsHandlerNoAmountCheck(w, t, recipient, addr, amount) ==
    IF ~(t[addr].lamports >= amount)
    THEN Outcome("InsufficientFunds", w, t)
    ELSE TransferWithSigner(w, t, t[addr].recipient, t[addr].bump,
                            PdaRef(addr), WalletRef(recipient), amount)

\* fn withdraw_tips
WithdrawTipsHandler(w, t, recipient, addr, amount) ==
    IF ~(amount > 0) THEN Outcome("InvalidAmount", w, t)
    ELSE IF ~(t[addr].lamports >= amount)
    THEN Outcome("InsufficientFunds", w, t)
    ELSE TransferWithSigner(w, t, t[addr].recipient, t[addr].bump,
                            PdaRef(addr), WalletRef(recipient), amount)

\* ---------------------------------------------------------------------
\* Transactions
\* ---------------------------------------------------------------------
\* End of a successful transaction: an account left with zero lamports is
\* removed from the ledger.
Commit(t) ==
    [a \in DOMAIN t |-> IF t[a].lamports = 0 THEN Uninitialized ELSE t[a]]

\* A failed invocation persists nothing; a successful one is committed.
Transaction(w, t, out) ==
    IF out.result = "Ok"
    THEN Outcome("Ok", out.wallet, Commit(out.tip))
    ELSE Outcome(out.result, w, t)

\* Whole instructions: validation, then handler, as one transaction.
InitializeTipAccount(w, t, payer, recipient, addr) ==
    LET v == InitializeTipAccountAccounts(w, t, payer, recipient, addr)
    IN Transaction(w, t,
           IF v.result # "Ok" THEN v
           ELSE InitializeTipAccountHandler(v.wallet, v.tip, payer, recipient, addr))

SendTip(w, t, tipper, addr, amount) ==
    LET v == SendTipAccounts(t, addr)
    IN Transaction(w, t,
           IF v # "Ok" THEN Outcome(v, w, t)
           ELSE SendTipHandler(w, t, tipper, addr, amount))

WithdrawTips(w, t, recipient, addr, amount) ==
    LET v == WithdrawTipsAccounts(t, recipient, addr)
    IN Transaction(w, t,
           IF v # "Ok" THEN Outcome(v, w, t)
           ELSE WithdrawTipsHandler(w, t, recipient, addr, amount))

\* ---------------------------------------------------------------------
\* State machine
\* ---------------------------------------------------------------------
\* Lamports are a u64 capitalisation shared by all accounts: the wallets
\* start with equal shares whose sum fits in a u64.
InitialLamports == U64Max \div NumKeys

NoCall ==
    [op |-> "none", signer |-> NoKey, recipient |-> NoKey, account |-> NoAddress,
     amount |-> 0, result |-> "none"]

\* Record of the call just made, with the state it was made in.
Call(op, signer, recipient, addr, amount, result) ==
    [op |-> op, signer |-> signer, recipient |-> recipient, account |-> addr,
     amount |-> amount, result |-> result]

NoRecord ==
    [call |-> NoCall, wallet |-> [k \in Keys |-> 0],
     tip |-> [a \in PdaAddrs |-> Uninitialized]]

\* The previous call is remembered only when it succeeded.
Remember == IF last.call.result = "Ok" THEN last ELSE NoRecord

Init ==
    /\ wallet = [k \in Keys |-> InitialLamports]
    /\ tip = [a \in PdaAddrs |-> Uninitialized]
    /\ last = NoRecord
    /\ prev = NoRecord
    /\ sent = [a \in PdaAddrs |-> 0]

\* Sum of the amounts of the successful send_tip calls made to each
\* TipAccount since it was created.
Sent(call) ==
    IF call.result # "Ok" THEN sent
    ELSE IF call.op = "initialize_tip_account"
    THEN [sent EXCEPT ![call.account] = 0]
    ELSE IF call.op = "send_tip"
    THEN [sent EXCEPT ![call.account] = @ + call.amount]
    ELSE sent

Step(call, out) ==
    /\ wallet' = out.wallet
    /\ tip' = out.tip
    /\ last' = [call |-> call, wallet |-> wallet, tip |-> tip]
    /\ prev' = Remember
    /\ sent' = Sent(call)

DoInitialize ==
    \E payer \in Keys, recipient \in Keys, addr \in PdaAddrs :
        LET out == InitializeTipAccount(wallet, tip, payer, recipient, addr)
        IN Step(Call("initialize_tip_account", payer, recipient, addr, 0,
                     out.result), out)

DoSendTip ==
    \E tipper \in Keys, addr \in PdaAddrs, amount \in Amounts :
        LET out == SendTip(wallet, tip, tipper, addr, amount)
        IN Step(Call("send_tip", tipper, NoKey, addr, amount, out.result), out)

DoWithdrawTips ==
    \E recipient \in Keys, addr \in PdaAddrs, amount \in Amounts :
        LET out == WithdrawTips(wallet, tip, recipient, addr, amount)
        IN Step(Call("withdraw_tips", recipient, NoKey, addr, amount, out.result),
                out)

Next == DoInitialize \/ DoSendTip \/ DoWithdrawTips

Spec == Init /\ [][Next]_vars

\* ---------------------------------------------------------------------
\* Properties
\* ---------------------------------------------------------------------
\* The last call left every balance and every TipAccount as it found them.
Unchanged == wallet = last.wallet /\ tip = last.tip

\* The account the last call targeted, before and after the call.
PreTip == last.tip[last.call.account]
PostTip == tip[last.call.account]

LastIs(op) == last.call.op = op /\ last.call.account \in PdaAddrs

\* The last call was a withdraw_tips on an active TipAccount signed by its
\* recorded recipient.
WithdrawByRecipient ==
    /\ LastIs("withdraw_tips")
    /\ PreTip.state = "active"
    /\ last.call.signer = PreTip.recipient

\* C1: a withdraw_tips on an active TipAccount signed by a key other than the
\* recorded recipient fails with UnauthorizedWithdrawal and changes nothing.
C1_UnauthorizedWithdrawal ==
    (/\ LastIs("withdraw_tips")
     /\ PreTip.state = "active"
     /\ last.call.signer # PreTip.recipient)
    => (last.call.result = "UnauthorizedWithdrawal" /\ Unchanged)

\* C2: an active TipAccount always holds at least the rent-exempt minimum.
C2_RentExempt ==
    \A a \in PdaAddrs :
        tip[a].state = "active" => tip[a].lamports >= RentExemptMin

\* The recipient asked for an amount the balance covers but that would leave
\* less than the rent-exempt minimum, and the account still holds it.
C2_Witness ==
    /\ WithdrawByRecipient
    /\ last.call.amount > 0
    /\ last.call.amount <= PreTip.lamports
    /\ PreTip.lamports - last.call.amount < RentExemptMin
    /\ PreTip.lamports - last.call.amount > 0
    /\ PostTip.state = "active"
    /\ PostTip.lamports >= RentExemptMin

\* C3: a successful send_tip has amount > 0, adds amount to total_tips and to
\* the TipAccount balance and takes amount from the tipper's balance.
C3_SendEffect ==
    (LastIs("send_tip") /\ last.call.result = "Ok")
    => /\ last.call.amount > 0
       /\ PostTip.total_tips = PreTip.total_tips + last.call.amount
       /\ PostTip.lamports = PreTip.lamports + last.call.amount
       /\ wallet[last.call.signer] = last.wallet[last.call.signer] - last.call.amount

C3_Witness ==
    /\ LastIs("send_tip")
    /\ last.call.result = "Ok"
    /\ PreTip.total_tips > 0

\* The last call was a send_tip to an active TipAccount whose amount does
\* not fit on top of total_tips.
SendBeyondU64 ==
    /\ LastIs("send_tip")
    /\ PreTip.state = "active"
    /\ PreTip.total_tips + last.call.amount > U64Max

C5_InsufficientFunds ==
    WithdrawByRecipient
    => /\ last.call.amount > PreTip.lamports
            => (last.call.result = "InsufficientFunds" /\ Unchanged)
       /\ last.call.result = "InsufficientFunds"
            => last.call.amount > PreTip.lamports

C5_Witness ==
    /\ WithdrawByRecipient
    /\ last.call.amount > PreTip.lamports
    /\ PreTip.total_tips > 0
    /\ last.call.result = "InsufficientFunds"

\* C6: from one state to the next total_tips of a TipAccount never
\* decreases, never exceeds the u64 maximum, and changes only in a successful
\* send_tip to that account, by that call's positive amount.
C6_TotalTipsMonotone ==
    [][\A a \in PdaAddrs :
          /\ tip'[a].total_tips >= tip[a].total_tips
          /\ tip'[a].total_tips <= U64Max
          /\ tip'[a].total_tips # tip[a].total_tips
               => /\ last'.call.op = "send_tip"
                  /\ last'.call.result = "Ok"
                  /\ last'.call.account = a
                  /\ last'.call.amount > 0
                  /\ tip'[a].total_tips = tip[a].total_tips + last'.call.amount
      ]_vars

C6_Witness ==
    /\ LastIs("send_tip")
    /\ last.call.result = "Ok"
    /\ PreTip.total_tips >= last.call.amount
    /\ PostTip.total_tips > PreTip.total_tips

\* C7: an initialize_tip_account for a recipient that already has a
\* TipAccount fails and leaves that account unchanged; no two TipAccounts
\* have the same recipient.
C7_InitializeOnce ==
    /\ (/\ LastIs("initialize_tip_account")
        /\ \E a \in PdaAddrs : /\ last.tip[a].state = "active"
                               /\ last.tip[a].recipient = last.call.recipient)
       => (last.call.result # "Ok" /\ Unchanged)
    /\ \A a, b \in PdaAddrs :
          (/\ tip[a].state = "active"
           /\ tip[b].state = "active"
           /\ tip[a].recipient = tip[b].recipient) => a = b

C7_Witness ==
    /\ LastIs("initialize_tip_account")
    /\ PreTip.state = "active"
    /\ PreTip.recipient = last.call.recipient
    /\ PreTip.total_tips > 0
    /\ last.call.result = "AccountAlreadyInUse"

\* C8: a TipAccount that is active stays active in every later state.
C8_NeverClosed ==
    [][\A a \in PdaAddrs :
          tip[a].state = "active" => tip'[a].state = "active"]_vars

\* The recipient asked for the whole balance and the account is still there.
C8_Witness ==
    /\ WithdrawByRecipient
    /\ last.call.amount = PreTip.lamports
    /\ PostTip.state = "active"

\* C9: for a freshly initialized TipAccount, a successful send_tip(a)
\* followed by withdraw_tips(a) signed by the recipient succeeds and leaves
\* the balance at its pre-send value with total_tips = a.
C9_RoundTrip ==
    (/\ WithdrawByRecipient
     /\ prev.call.op = "send_tip"
     /\ prev.call.result = "Ok"
     /\ prev.call.account = last.call.account
     /\ prev.call.amount = last.call.amount
     /\ prev.tip[prev.call.account].total_tips = 0
     /\ prev.tip[prev.call.account].lamports = RentExemptMin)
    => /\ last.call.result = "Ok"
       /\ PostTip.lamports = prev.tip[prev.call.account].lamports
       /\ PostTip.total_tips = last.call.amount

C12_ZeroWithdrawInvalidAmount ==
    (WithdrawByRecipient /\ last.call.amount = 0)
    => (last.call.result = "InvalidAmount" /\ Unchanged)

C12_Witness ==
    /\ WithdrawByRecipient
    /\ last.call.amount = 0
    /\ PreTip.lamports > RentExemptMin
    /\ last.call.result = "InvalidAmount"

\* C13: recipient and bump of a TipAccount are set by initialize_tip_account
\* to the recipient key it was created for and to that key's derivation
\* bump, and no later step changes them.
C13_RecipientImmutable ==
    [][\A a \in PdaAddrs :
          /\ tip[a].state = "active"
               => /\ tip'[a].recipient = tip[a].recipient
                  /\ tip'[a].bump = tip[a].bump
          /\ (tip[a].state # "active" /\ tip'[a].state = "active")
               => /\ last'.call.op = "initialize_tip_account"
                  /\ tip'[a].recipient = last'.call.recipient
                  /\ tip'[a].bump = FindProgramAddress(last'.call.recipient).bump
                  /\ a = FindProgramAddress(last'.call.recipient).address
      ]_vars

\* A tip was sent to an account created by a payer other than its recipient,
\* and the account still names that recipient.
C13_Witness ==
    /\ LastIs("send_tip")
    /\ last.call.result = "Ok"
    /\ prev.call.op = "initialize_tip_account"
    /\ prev.call.account = last.call.account
    /\ prev.call.signer # prev.call.recipient
    /\ PostTip.recipient = prev.call.recipient
    /\ PostTip.bump = FindProgramAddress(prev.call.recipient).bump

\* C14: in every state the total_tips of an active TipAccount is the sum of
\* the amounts of the successful send_tip calls made to it since creation.
C14_TotalTipsIsSum ==
    \A a \in PdaAddrs :
        tip[a].state = "active" => tip[a].total_tips = sent[a]

\* Two successful sends in a row to the same account, a withdrawal having
\* been attempted or not, add up.
C14_Witness ==
    /\ LastIs("send_tip")
    /\ last.call.result = "Ok"
    /\ prev.call.op = "send_tip"
    /\ prev.call.account = last.call.account
    /\ prev.call.amount # last.call.amount
    /\ PostTip.total_tips
         = prev.tip[prev.call.account].total_tips
           + prev.call.amount + last.call.amount

\* The last call was a send_tip of a positive amount the tipper cannot cover.
SendBeyondBalance ==
    /\ LastIs("send_tip")
    /\ last.call.amount > 0
    /\ last.call.amount > last.wallet[last.call.signer]

NoNegativeBalance ==
    /\ \A k \in Keys : wallet[k] >= 0
    /\ \A a \in PdaAddrs : tip[a].lamports >= 0

C16_InitializeEffect ==
    (LastIs("initialize_tip_account") /\ last.call.result = "Ok")
    => /\ PreTip = Uninitialized
       /\ last.call.account = FindProgramAddress(last.call.recipient).address
       /\ PostTip = TipAccount(last.call.recipient, 0,
                               FindProgramAddress(last.call.recipient).bump,
                               RentExemptMin)
       /\ CreateProgramAddress(PostTip.recipient, PostTip.bump)
            = last.call.account
       /\ wallet = [last.wallet EXCEPT ![last.call.signer] = @ - RentExemptMin]

\* An account was created for a recipient by a different payer.
C16_Witness ==
    /\ LastIs("initialize_tip_account")
    /\ last.call.result = "Ok"
    /\ last.call.signer # last.call.recipient
    /\ PostTip.state = "active"

\* C18: whenever R's TipAccount is active with balance b, a withdraw_tips(a)
\* signed by R with 0 < a <= b succeeds.
C18_Withdrawable ==
    (/\ WithdrawByRecipient
     /\ last.call.amount > 0
     /\ last.call.amount <= PreTip.lamports)
    => last.call.result = "Ok"

\* Sum of f over the finite set S.
RECURSIVE SumOver(_, _)
SumOver(f, S) ==
    IF S = {} THEN 0
    ELSE LET x == CHOOSE x \in S : TRUE
         IN f[x] + SumOver(f, S \ {x})

\* All lamports held by the wallets and by the accounts at the PDAs.
TotalLamports(w, t) ==
    SumOver(w, Keys) + SumOver([a \in PdaAddrs |-> t[a].lamports], PdaAddrs)

\* C19: the sum of the balances of all accounts is the same in every state,
\* whether the last call succeeded or failed.
C19_Conservation ==
    /\ TotalLamports(wallet, tip) = NumKeys * InitialLamports
    /\ last.call.op # "none"
         => TotalLamports(wallet, tip) = TotalLamports(last.wallet, last.tip)

\* An account was created and then tipped: lamports moved twice.
C19_Witness ==
    /\ LastIs("send_tip")
    /\ last.call.result = "Ok"
    /\ prev.call.op = "initialize_tip_account"
    /\ wallet # last.wallet
    /\ TotalLamports(wallet, tip) = TotalLamports(prev.wallet, prev.tip)

\* C20: a call that targets one TipAccount leaves the TipAccount of every
\* other recipient (state, recipient, total_tips, bump, balance) unchanged.
C20_Isolation ==
    LastIs(last.call.op)
    => \A a \in PdaAddrs \ {last.call.account} : tip[a] = last.tip[a]

\* A tip reached one TipAccount while another, already tipped, exists.
C20_Witness ==
    /\ LastIs("send_tip")
    /\ last.call.result = "Ok"
    /\ \E a \in PdaAddrs \ {last.call.account} :
          /\ tip[a].state = "active"
          /\ tip[a].total_tips > 0
          /\ tip[a] = last.tip[a]

====
